---- MODULE Spec2Model ----
(***************************************************************************)
(* A model of led_camera_control.py: the camera sampling pipeline          *)
(* (CameraProcessor), the two worker threads that share the colour         *)
(* (ControlThreads) and the start-up / shutdown path of main().            *)
(*                                                                         *)
(* Numbers.  The pipeline computes with Python floats; the model computes  *)
(* with exact rationals <<n, d>> (d > 0, lowest terms).  Every claim on    *)
(* values below is a claim in exact arithmetic.                            *)
(*                                                                         *)
(* Threads.  CPython switches threads between bytecodes, so the tuple      *)
(* assignment of line 121 is three separate attribute stores and the       *)
(* argument list of line 131 is three separate attribute loads.            *)
(***************************************************************************)
EXTENDS Integers, Sequences, FiniteSets, TLC

\* ------------------------------------------------------------------ bounds
\* Publish numbers are counted up to MaxPub and saturate there.
MaxPub == 2
\* Largest frame height / width drawn for the pure-function calls.
MaxDim == 4
\* Largest channel value of the triples drawn for scale_to_pwm.
MaxVal == 3
\* Largest positive pwm_max drawn for scale_to_pwm.
MaxPwm == 3
\* Region fractions are drawn as n / RegionDen.
RegionDen == 4

\* --------------------------------------------------------------- rationals
\* TLC re-evaluates an operator's argument at every use when it evaluates
\* ENABLED; the operators below bind their operands once (p \in {<<x, y>>})
\* so that nested calls stay linear.
Abs(x) == IF x < 0 THEN -x ELSE x

RECURSIVE GCD(_, _)
GCD(a, b) ==
  CHOOSE k \in {IF p[2] = 0 THEN p[1] ELSE GCD(p[2], p[1] % p[2]) :
                  p \in {<< a, b >>}} : TRUE

\* n / d in lowest terms with a positive denominator (d # 0).
Rat(n, d) ==
  CHOOSE q \in {<< (p[3] * p[1]) \div p[4], (p[3] * p[2]) \div p[4] >> :
                  p \in {<< n, d, IF d < 0 THEN -1 ELSE 1,
                            GCD(Abs(n), Abs(d)) >>}} : TRUE

RInt(i) == << i, 1 >>

RAdd(x, y) ==
  CHOOSE q \in {Rat(p[1][1] * p[2][2] + p[2][1] * p[1][2], p[1][2] * p[2][2]) :
                  p \in {<< x, y >>}} : TRUE

RSub(x, y) ==
  CHOOSE q \in {Rat(p[1][1] * p[2][2] - p[2][1] * p[1][2], p[1][2] * p[2][2]) :
                  p \in {<< x, y >>}} : TRUE

RMul(x, y) ==
  CHOOSE q \in {Rat(p[1][1] * p[2][1], p[1][2] * p[2][2]) :
                  p \in {<< x, y >>}} : TRUE

RDiv(x, y) ==
  CHOOSE q \in {Rat(p[1][1] * p[2][2], p[1][2] * p[2][1]) :
                  p \in {<< x, y >>}} : TRUE

RLe(x, y) == \E p \in {<< x, y >>} : p[1][1] * p[2][2] <= p[2][1] * p[1][2]
RLt(x, y) == \E p \in {<< x, y >>} : p[1][1] * p[2][2] < p[2][1] * p[1][2]

RMin(x, y) ==
  CHOOSE q \in {IF RLe(p[1], p[2]) THEN p[1] ELSE p[2] : p \in {<< x, y >>}} :
    TRUE

RMax(x, y) ==
  CHOOSE q \in {IF RLe(p[1], p[2]) THEN p[2] ELSE p[1] : p \in {<< x, y >>}} :
    TRUE

\* int(x) of a non-negative float: truncation.
RTrunc(x) == CHOOSE n \in {p[1] \div p[2] : p \in {x}} : TRUE

Zero == RInt(0)
One == RInt(1)

\* ------------------------------------------------------------------ frames
\* A frame is a (v, h, c) array in B,G,R order: pix[<<row, col>>] = <<b, g, r>>.
\* cam.read() returns no image at all when it fails.
NoImage == [none |-> TRUE, v |-> 0, h |-> 0, c |-> 0, pix |-> << >>]

UniformFrame(v, h, c, bgr) ==
  [none |-> FALSE, v |-> v, h |-> h, c |-> c,
   pix |-> [p \in (0 .. v - 1) \X (0 .. h - 1) |-> bgr]]

\* A 3-channel frame that is `inside` on rows r0 .. r1 - 1, columns c0 .. c1 - 1
\* and `outside` elsewhere.
BoxFrame(v, h, r0, r1, c0, c1, inside, outside) ==
  [none |-> FALSE, v |-> v, h |-> h, c |-> 3,
   pix |-> [p \in (0 .. v - 1) \X (0 .. h - 1) |->
              IF r0 <= p[1] /\ p[1] < r1 /\ c0 <= p[2] /\ p[2] < c1
                THEN inside ELSE outside]]

\* The default region of average_of_region: the central 50% x 50% box.
DefaultRegion ==
  [v_start |-> Rat(1, 4), v_end |-> Rat(3, 4),
   h_start |-> Rat(1, 4), h_end |-> Rat(3, 4)]

\* ------------------------------------------------- CameraProcessor.__init__
\* The assertion with its lower bound forgotten.
BalanceOkUpperOnly(x) == RLe(x, One)

\* The three balance assertions of the constructor.
BalanceOk(x) == RLe(Zero, x) /\ RLe(x, One)

\* ------------------------------------------- CameraProcessor.average_of_region
\* The assertions on the region without the one on the horizontal order.
RegionAssertsVerticalOrderOnly(reg) ==
  /\ RLt(reg.v_start, reg.v_end)
  /\ RLe(Zero, reg.v_start) /\ RLe(reg.v_start, One)
  /\ RLe(Zero, reg.v_end) /\ RLe(reg.v_end, One)
  /\ RLe(Zero, reg.h_start) /\ RLe(reg.h_start, One)
  /\ RLe(Zero, reg.h_end) /\ RLe(reg.h_end, One)

\* The three assertions on the region.
RegionAsserts(reg) ==
  /\ RLt(reg.v_start, reg.v_end) /\ RLt(reg.h_start, reg.h_end)
  /\ RLe(Zero, reg.v_start) /\ RLe(reg.v_start, One)
  /\ RLe(Zero, reg.v_end) /\ RLe(reg.v_end, One)
  /\ RLe(Zero, reg.h_start) /\ RLe(reg.h_start, One)
  /\ RLe(Zero, reg.h_end) /\ RLe(reg.h_end, One)

\* region = image[(v * v_start):(v * v_end), (h * h_start):(h * h_end)]:
\* the float bounds of a slice are truncated to integers.
SliceBound(dim, fraction) == RTrunc(RMul(RInt(dim), fraction))

SliceLen(dim, start, end) ==
  IF SliceBound(dim, end) > SliceBound(dim, start)
    THEN SliceBound(dim, end) - SliceBound(dim, start)
    ELSE 0

RegionRows(image, reg) == SliceLen(image.v, reg.v_start, reg.v_end)
RegionCols(image, reg) == SliceLen(image.h, reg.h_start, reg.h_end)

\* The pixels of the slice of line 57: rows [v*v_start, v*v_end), columns
\* [h*h_start, h*h_end), the bounds truncated.
RegionPixels(image, reg) ==
  {p \in DOMAIN image.pix :
     /\ SliceBound(image.v, reg.v_start) <= p[1]
     /\ p[1] < SliceBound(image.v, reg.v_end)
     /\ SliceBound(image.h, reg.h_start) <= p[2]
     /\ p[2] < SliceBound(image.h, reg.h_end)}

\* The index pairs <<first, second>> of image[h_pix, v_pix, _] in the two loops,
\* in the order the loops make them: v_pix outer, h_pix inner.
LoopIndexes(rows, cols) ==
  [k \in 1 .. rows * cols |-> << (k - 1) % cols, (k - 1) \div cols >>]

\* image[i, j, _] raises IndexError outside the frame.
InFrame(image, idx) ==
  /\ 0 <= idx[1] /\ idx[1] < image.v
  /\ 0 <= idx[2] /\ idx[2] < image.h

\* r_sum, g_sum, b_sum after the first k index pairs (ch: 1 = B, 2 = G, 3 = R).
RECURSIVE SumChannel(_, _, _, _)
SumChannel(image, idxs, k, ch) ==
  IF k = 0 THEN 0
  ELSE CHOOSE s \in {SumChannel(image, idxs, j, ch) + image.pix[idxs[j + 1]][ch] :
                       j \in {k - 1}} : TRUE

\* Lines 50-71 for a region of rows x cols pixels read through idxs.
RegionOutcome(image, rows, cols, idxs) ==
  LET bad == {k \in 1 .. rows * cols : ~InFrame(image, idxs[k])}
      firstBad == CHOOSE k \in bad : \A j \in bad : k <= j
      last == IF bad = {} THEN rows * cols ELSE firstBad
      size == rows * cols * image.c
      none == << 0, 0, 0 >>
  IN  IF image.none
        THEN [status |-> "AttributeError", reads |-> {}, value |-> none]
      ELSE IF image.c # 3
        THEN [status |-> "AssertionError", reads |-> {}, value |-> none]
      ELSE IF bad # {}
        THEN [status |-> "IndexError",
              reads |-> {idxs[k] : k \in 1 .. last}, value |-> none]
      ELSE IF size = 0
        THEN [status |-> "ZeroDivisionError", reads |-> {}, value |-> none]
      ELSE [status |-> "ok",
            reads |-> {idxs[k] : k \in 1 .. last},
            value |-> << SumChannel(image, idxs, rows * cols, 3) \div size,
                         SumChannel(image, idxs, rows * cols, 2) \div size,
                         SumChannel(image, idxs, rows * cols, 1) \div size >>]

\* The outcome of average_of_region: its status, the index pairs it used on
\* the frame (up to and including one that raised) and the returned triple.
average_of_region(image, reg) ==
  IF ~RegionAsserts(reg)
    THEN [status |-> "AssertionError", reads |-> {}, value |-> << 0, 0, 0 >>]
    ELSE CHOOSE out \in
           {RegionOutcome(image, p[1], p[2], LoopIndexes(p[1], p[2])) :
              p \in {<< RegionRows(image, reg), RegionCols(image, reg) >>}} :
           TRUE

\* ----------------------------------------------- CameraProcessor.color_balance
\* color_balance returning its arguments instead of the corrected values.
color_balance_uncorrected(rgb, bal) == rgb

color_balance(rgb, bal) ==
  CHOOSE out \in {[i \in 1 .. 3 |-> RMul(p[1][i], p[2][i])] :
                    p \in {<< rgb, bal >>}} : TRUE

\* ------------------------------------------------ CameraProcessor.scale_to_pwm
\* Widening without the added 1.
WidenNoOffset(rgb) ==
  CHOOSE w \in {[i \in 1 .. 3 |-> RSub(x[i], RMin(x[1], RMin(x[2], x[3])))] :
                  x \in {rgb}} : TRUE

\* Lines 93-96: subtract the smallest channel and add 1.
Widen(rgb) ==
  CHOOSE w \in {[i \in 1 .. 3 |->
                   RAdd(RSub(x[i], RMin(x[1], RMin(x[2], x[3]))), One)] :
                  x \in {rgb}} : TRUE

\* Lines 101-103: every widened channel times scale_factor.
Scaled(w, scale_factor) ==
  CHOOSE out \in {[i \in 1 .. 3 |-> RMul(p[1][i], p[2])] :
                    p \in {<< w, scale_factor >>}} : TRUE

\* scale_to_pwm scaling by the smallest widened channel instead of the largest.
scale_to_pwm_by_min(rgb, pwm_max) ==
  CHOOSE out \in
    {Scaled(w, RDiv(RInt(pwm_max), RMin(w[1], RMin(w[2], w[3])))) :
       w \in {Widen(rgb)}} : TRUE

\* Lines 97-98: max_rgb = max(widened), scale_factor = pwm_max / float(max_rgb).
scale_to_pwm(rgb, pwm_max) ==
  CHOOSE out \in
    {Scaled(w, RDiv(RInt(pwm_max), RMax(w[1], RMax(w[2], w[3])))) :
       w \in {Widen(rgb)}} : TRUE

\* ------------------------------------------- CameraProcessor.average_and_scale
average_and_scale(image, bal, pwm_max) ==
  CHOOSE out \in
    {IF avg.status # "ok"
       THEN [status |-> avg.status, value |-> << Zero, Zero, Zero >>]
       ELSE [status |-> "ok",
             value |-> scale_to_pwm(
                         color_balance([i \in 1 .. 3 |-> RInt(avg.value[i])],
                                       bal),
                         pwm_max)] :
       avg \in {average_of_region(image, DefaultRegion)}} : TRUE

\* ------------------------------------------------------------------- state
VARIABLES
  cfg,         \* the parsed command line: pwm_max, balances, test, camera opens
  mainPc,      \* where main() is
  camPc,       \* where cam_thread_func is
  ledPc,       \* where led_thread_func is
  exit_event,  \* threading.Event
  r, g, b,     \* ControlThreads.r, .g, .b: the shared colour
  image,       \* cam_thread_func: the captured frame
  pending,     \* cam_thread_func: the triple being unpacked into r, g, b
  args,        \* led_thread_func: the arguments of fade loaded so far
  released,    \* number of array.__exit__() calls
  tested,      \* number of array.test_colors() calls
  scaled,      \* scale_to_pwm has been executed
  published,   \* history: the triples stored whole (and the initial one)
  pubCount,    \* history: completed publishes, saturating at MaxPub
  ver,         \* history: the publish that wrote each of r, g, b
  argVer,      \* history: the publish that wrote each loaded argument
  observed,    \* history: the newest publish a fade has been issued for
  call,        \* a call of one pure function of CameraProcessor
  result       \* what that call returned

vars == << cfg, mainPc, camPc, ledPc, exit_event, r, g, b, image, pending, args,
           released, tested, scaled, published, pubCount, ver, argVer,
           observed, call, result >>

threadVars == << cfg, mainPc, camPc, ledPc, exit_event, r, g, b, image, pending,
                 args, released, tested, scaled, published, pubCount, ver,
                 argVer, observed >>

NoCall == [fn |-> "none"]
NoResult == [status |-> "none"]

\* The frames the camera delivers in the threaded model (B,G,R order).
RedFrame == UniformFrame(4, 4, 3, << 60, 30, 240 >>)
BlueFrame == UniformFrame(4, 4, 3, << 240, 30, 60 >>)
Frames == {RedFrame, BlueFrame}

\* Command lines: the defaults of lines 153-159, and bad values.
Balances ==
  { << Rat(10, 10), Rat(10, 10), Rat(9, 10) >>,
    << Rat(11, 10), Rat(10, 10), Rat(9, 10) >>,
    << Rat(10, 10), Rat(-1, 10), Rat(9, 10) >>,
    << Rat(10, 10), Rat(10, 10), Rat(11, 10) >> }

Configs ==
  [pwm_max : {-5, 0, 100}, bal : Balances, test : BOOLEAN, cam_opens : BOOLEAN]

DefaultConfig ==
  [pwm_max |-> 100, bal |-> << Rat(10, 10), Rat(10, 10), Rat(9, 10) >>,
   test |-> FALSE, cam_opens |-> TRUE]

InitialColor == << Zero, Zero, Zero >>

ThreadInit(configs) ==
  /\ cfg \in configs
  /\ mainPc = "construct"
  /\ camPc = "idle"
  /\ ledPc = "idle"
  /\ exit_event = FALSE
  /\ r = Zero /\ g = Zero /\ b = Zero
  /\ image = NoImage
  /\ pending = InitialColor
  /\ args = << >>
  /\ released = 0
  /\ tested = 0
  /\ scaled = FALSE
  /\ published = {InitialColor}
  /\ pubCount = 0
  /\ ver = << 0, 0, 0 >>
  /\ argVer = << >>
  /\ observed = [fresh |-> 0, whole |-> 0]

Init == ThreadInit(Configs) /\ call = NoCall /\ result = NoResult

\* -------------------------------------------------------------------- main
\* Lines 165-168: LedArray(...), then CameraProcessor(...) with its assertions.
ConstructorAsserts(c) ==
  /\ BalanceOk(c.bal[1]) /\ BalanceOk(c.bal[2]) /\ BalanceOk(c.bal[3])
  /\ c.cam_opens

MainConstruct ==
  /\ mainPc = "construct"
  /\ mainPc' = IF ~ConstructorAsserts(cfg) THEN "failed"
               ELSE IF cfg.test THEN "test_capture" ELSE "setup"
  /\ UNCHANGED << cfg, camPc, ledPc, exit_event, r, g, b, image, pending,
                  args, released, tested, scaled, published, pubCount, ver,
                  argVer, observed, call, result >>

\* Lines 179-181: the event, ControlThreads (r = g = b = 0), the SIGINT handler.
MainSetup ==
  /\ mainPc = "setup"
  /\ mainPc' = "start_cam"
  /\ exit_event' = FALSE
  /\ r' = Zero /\ g' = Zero /\ b' = Zero
  /\ UNCHANGED << cfg, camPc, ledPc, image, pending, args, released, tested,
                  scaled, published, pubCount, ver, argVer, observed, call,
                  result >>

\* Line 184: cam_thread.start().
MainStartCam ==
  /\ mainPc = "start_cam"
  /\ mainPc' = "start_led"
  /\ camPc' = "capture"
  /\ UNCHANGED << cfg, ledPc, exit_event, r, g, b, image, pending, args,
                  released, tested, scaled, published, pubCount, ver, argVer,
                  observed, call, result >>

\* Line 185: led_thread.start().
MainStartLed ==
  /\ mainPc = "start_led"
  /\ mainPc' = "sleep"
  /\ ledPc' = "load_r"
  /\ UNCHANGED << cfg, camPc, exit_event, r, g, b, image, pending, args,
                  released, tested, scaled, published, pubCount, ver, argVer,
                  observed, call, result >>

\* Lines 187-193: sleep, then look at the event.  exit_handler() called without
\* its two arguments raises TypeError, which ends main.
MainSleep ==
  /\ mainPc = "sleep"
  /\ mainPc' = IF exit_event THEN "exited" ELSE "sleep"
  /\ UNCHANGED << cfg, camPc, ledPc, exit_event, r, g, b, image, pending,
                  args, released, tested, scaled, published, pubCount, ver,
                  argVer, observed, call, result >>

\* The SIGINT handler is installed by line 181 and stays installed.
HandlerInstalled == mainPc \in {"start_cam", "start_led", "sleep", "exited"}

\* The handler flipping the event instead of setting it.
InterruptToggles ==
  /\ HandlerInstalled
  /\ exit_event' = ~exit_event
  /\ mainPc' = "exited"
  /\ UNCHANGED << cfg, camPc, ledPc, r, g, b, image, pending, args, released,
                  tested, scaled, published, pubCount, ver, argVer, observed,
                  call, result >>

\* Lines 137-140, exit_handler run by a SIGINT in the main thread: set the
\* event, then sys.exit() unwinds main.  The worker threads keep running.
\* A SIGINT may arrive any number of times.
Interrupt ==
  /\ HandlerInstalled
  /\ exit_event' = TRUE
  /\ mainPc' = "exited"
  /\ UNCHANGED << cfg, camPc, ledPc, r, g, b, image, pending, args, released,
                  tested, scaled, published, pubCount, ver, argVer, observed,
                  call, result >>

\* Lines 171-173 (test mode): capture one frame and save it; cv.fromarray
\* fails on a missing image.
MainTestCapture ==
  /\ mainPc = "test_capture"
  /\ \E f \in Frames \cup {NoImage} :
       mainPc' = IF f.none THEN "failed" ELSE "test_colors"
  /\ UNCHANGED << cfg, camPc, ledPc, exit_event, r, g, b, image, pending,
                  args, released, tested, scaled, published, pubCount, ver,
                  argVer, observed, call, result >>

\* Line 175: array.test_colors(1.0).
MainTestColors ==
  /\ mainPc = "test_colors"
  /\ mainPc' = "test_release"
  /\ tested' = tested + 1
  /\ UNCHANGED << cfg, camPc, ledPc, exit_event, r, g, b, image, pending,
                  args, released, scaled, published, pubCount, ver, argVer,
                  observed, call, result >>

\* Lines 176-177: array.__exit__(), sys.exit().
MainTestRelease ==
  /\ mainPc = "test_release"
  /\ mainPc' = "test_done"
  /\ released' = released + 1
  /\ UNCHANGED << cfg, camPc, ledPc, exit_event, r, g, b, image, pending,
                  args, tested, scaled, published, pubCount, ver, argVer,
                  observed, call, result >>

Main ==
  \/ MainConstruct \/ MainSetup \/ MainStartCam \/ MainStartLed \/ MainSleep
  \/ MainTestCapture \/ MainTestColors \/ MainTestRelease

\* --------------------------------------------- ControlThreads.cam_thread_func
Min(x, y) == IF x <= y THEN x ELSE y

\* The number of the publish in progress.
ThisPub == Min(pubCount + 1, MaxPub)

\* Line 120, capture_image (73-77): a failed read is logged and the missing
\* image is returned like a frame.
CamCapture ==
  /\ camPc = "capture"
  /\ \E f \in Frames \cup {NoImage} : image' = f
  /\ camPc' = "process"
  /\ UNCHANGED << cfg, mainPc, ledPc, exit_event, r, g, b, pending, args,
                  released, tested, scaled, published, pubCount, ver, argVer,
                  observed, call, result >>

\* What average_and_scale makes of the captured frame.
Processed == average_and_scale(image, cfg.bal, cfg.pwm_max)

\* Line 121, right-hand side: average_and_scale(image).  An exception raised
\* in it ends the thread.
CamProcess ==
  /\ camPc = "process"
  /\ camPc' = IF Processed.status = "ok" THEN "store_r" ELSE "crashed"
  /\ pending' = IF Processed.status = "ok" THEN Processed.value ELSE pending
  /\ scaled' = (scaled \/ Processed.status = "ok")
  /\ image' = NoImage
  /\ UNCHANGED << cfg, mainPc, ledPc, exit_event, r, g, b, args, released,
                  tested, published, pubCount, ver, argVer, observed, call,
                  result >>

\* Line 121, left-hand side: self.r = ..., then self.g, then self.b.
CamStoreR ==
  /\ camPc = "store_r"
  /\ r' = pending[1]
  /\ ver' = [ver EXCEPT ![1] = ThisPub]
  /\ camPc' = "store_g"
  /\ UNCHANGED << cfg, mainPc, ledPc, exit_event, g, b, image, pending, args,
                  released, tested, scaled, published, pubCount, argVer,
                  observed, call, result >>

CamStoreG ==
  /\ camPc = "store_g"
  /\ g' = pending[2]
  /\ ver' = [ver EXCEPT ![2] = ThisPub]
  /\ camPc' = "store_b"
  /\ UNCHANGED << cfg, mainPc, ledPc, exit_event, r, b, image, pending, args,
                  released, tested, scaled, published, pubCount, argVer,
                  observed, call, result >>

CamStoreB ==
  /\ camPc = "store_b"
  /\ b' = pending[3]
  /\ ver' = [ver EXCEPT ![3] = ThisPub]
  /\ published' = published \cup {pending}
  /\ pubCount' = ThisPub
  /\ pending' = InitialColor
  /\ camPc' = "check"
  /\ UNCHANGED << cfg, mainPc, ledPc, exit_event, r, g, image, args, released,
                  tested, scaled, argVer, observed, call, result >>

\* Line 122: if self.exit_event.is_set().
CamCheck ==
  /\ camPc = "check"
  /\ camPc' = IF exit_event THEN "release" ELSE "capture"
  /\ UNCHANGED << cfg, mainPc, ledPc, exit_event, r, g, b, image, pending,
                  args, released, tested, scaled, published, pubCount, ver,
                  argVer, observed, call, result >>

\* Lines 124-125: self.array.__exit__(); break.
CamRelease ==
  /\ camPc = "release"
  /\ released' = released + 1
  /\ camPc' = "done"
  /\ UNCHANGED << cfg, mainPc, ledPc, exit_event, r, g, b, image, pending,
                  args, tested, scaled, published, pubCount, ver, argVer,
                  observed, call, result >>

Cam ==
  \/ CamCapture \/ CamProcess \/ CamStoreR \/ CamStoreG \/ CamStoreB
  \/ CamCheck \/ CamRelease

CamInLoop ==
  camPc \in {"capture", "process", "store_r", "store_g", "store_b", "check",
             "release"}

\* --------------------------------------------- ControlThreads.led_thread_func
Max(x, y) == IF x >= y THEN x ELSE y

\* The oldest publish among those that wrote the three loaded arguments.
Oldest(v) == Min(v[1], Min(v[2], v[3]))

\* The loop waiting for a publish it has not faded to before it loads.
LedLoadRAfterNewPublish ==
  /\ ledPc = "load_r"
  /\ pubCount > observed.whole
  /\ args' = << r >>
  /\ argVer' = << ver[1] >>
  /\ ledPc' = "load_g"
  /\ UNCHANGED << cfg, mainPc, camPc, exit_event, r, g, b, image, pending,
                  released, tested, scaled, published, pubCount, ver,
                  observed, call, result >>

\* Line 131, the arguments: self.r, then self.g, then self.b are loaded.
LedLoadR ==
  /\ ledPc = "load_r"
  /\ args' = << r >>
  /\ argVer' = << ver[1] >>
  /\ ledPc' = "load_g"
  /\ UNCHANGED << cfg, mainPc, camPc, exit_event, r, g, b, image, pending,
                  released, tested, scaled, published, pubCount, ver,
                  observed, call, result >>

LedLoadG ==
  /\ ledPc = "load_g"
  /\ args' = Append(args, g)
  /\ argVer' = Append(argVer, ver[2])
  /\ ledPc' = "load_b"
  /\ UNCHANGED << cfg, mainPc, camPc, exit_event, r, g, b, image, pending,
                  released, tested, scaled, published, pubCount, ver,
                  observed, call, result >>

\* Line 131: self.b is loaded and fade(r, g, b, .1) is called; the thread is
\* inside fade, fading toward args, until LedFade.
LedLoadB ==
  /\ ledPc = "load_b"
  /\ args' = Append(args, b)
  /\ argVer' = Append(argVer, ver[3])
  /\ observed' =
       [fresh |-> Max(observed.fresh, Oldest(argVer')),
        whole |-> IF args' \in published
                    THEN Max(observed.whole, Oldest(argVer'))
                    ELSE observed.whole]
  /\ ledPc' = "fade"
  /\ UNCHANGED << cfg, mainPc, camPc, exit_event, r, g, b, image, pending,
                  released, tested, scaled, published, pubCount, ver, call,
                  result >>

\* fade returning and the loop writing the colour it reached back to the
\* shared triple.
LedFadeWritesBack ==
  /\ ledPc = "fade"
  /\ r' = args[1] /\ g' = args[2] /\ b' = args[3]
  /\ args' = << >>
  /\ argVer' = << >>
  /\ ledPc' = "check"
  /\ UNCHANGED << cfg, mainPc, camPc, exit_event, image, pending, released,
                  tested, scaled, published, pubCount, ver, observed, call,
                  result >>

\* Line 131: fade returns.
LedFade ==
  /\ ledPc = "fade"
  /\ args' = << >>
  /\ argVer' = << >>
  /\ ledPc' = "check"
  /\ UNCHANGED << cfg, mainPc, camPc, exit_event, r, g, b, image, pending,
                  released, tested, scaled, published, pubCount, ver,
                  observed, call, result >>

\* The loop leaving after its first fade whatever the event says.
LedCheckBreakAlways ==
  /\ ledPc = "check"
  /\ ledPc' = "done"
  /\ UNCHANGED << cfg, mainPc, camPc, exit_event, r, g, b, image, pending,
                  args, released, tested, scaled, published, pubCount, ver,
                  argVer, observed, call, result >>

\* The loop never looking at the event.
LedCheckNeverBreak ==
  /\ ledPc = "check"
  /\ ledPc' = "load_r"
  /\ UNCHANGED << cfg, mainPc, camPc, exit_event, r, g, b, image, pending,
                  args, released, tested, scaled, published, pubCount, ver,
                  argVer, observed, call, result >>

\* Lines 132-134: if self.exit_event.is_set(): break.
LedCheck ==
  /\ ledPc = "check"
  /\ ledPc' = IF exit_event THEN "done" ELSE "load_r"
  /\ UNCHANGED << cfg, mainPc, camPc, exit_event, r, g, b, image, pending,
                  args, released, tested, scaled, published, pubCount, ver,
                  argVer, observed, call, result >>

Led == LedLoadR \/ LedLoadG \/ LedLoadB \/ LedFade \/ LedCheck

LedInLoop == ledPc \in {"load_r", "load_g", "load_b", "fade", "check"}

\* ------------------------------------------------------------ specifications
Next ==
  \/ MainConstruct \/ MainSetup \/ MainStartCam \/ MainStartLed \/ MainSleep
  \/ MainTestCapture \/ MainTestColors \/ MainTestRelease
  \/ Interrupt
  \/ CamCapture \/ CamProcess \/ CamStoreR \/ CamStoreG \/ CamStoreB
  \/ CamCheck \/ CamRelease
  \/ LedLoadR \/ LedLoadG \/ LedLoadB \/ LedFade \/ LedCheck

Spec == Init /\ [][Next]_vars

\* The normal mode under the default command line, with every thread that can
\* take a step eventually taking one.  Interrupts are not forced.
FairInit == ThreadInit({DefaultConfig}) /\ call = NoCall /\ result = NoResult

FairNext ==
  \/ MainConstruct \/ MainSetup \/ MainStartCam \/ MainStartLed \/ MainSleep
  \/ Interrupt
  \/ CamCapture \/ CamProcess \/ CamStoreR \/ CamStoreG \/ CamStoreB
  \/ CamCheck \/ CamRelease
  \/ LedLoadR \/ LedLoadG \/ LedLoadB \/ LedFade \/ LedCheck

FairSpec ==
  /\ FairInit
  /\ [][FairNext]_vars
  /\ WF_vars(Main)
  /\ WF_vars(Cam)
  /\ WF_vars(Led)

\* ------------------------------------------- calls of the pure functions
\* Region fractions n / RegionDen: those in [0, 1], one below and one above.
Fractions == {Rat(n, RegionDen) : n \in -1 .. RegionDen + 1}

Regions ==
  [v_start : Fractions, v_end : Fractions, h_start : Fractions,
   h_end : Fractions]

\* Frames of every size up to MaxDim x MaxDim, three channels.
SizedFrames ==
  {UniformFrame(v, h, 3, << 100, 150, 200 >>) : v \in 1 .. MaxDim,
                                                 h \in 1 .. MaxDim}

\* The largest frame, coloured on the box that DefaultRegion selects and black
\* around it.
PatchFrame ==
  BoxFrame(MaxDim, MaxDim,
           SliceBound(MaxDim, DefaultRegion.v_start),
           SliceBound(MaxDim, DefaultRegion.v_end),
           SliceBound(MaxDim, DefaultRegion.h_start),
           SliceBound(MaxDim, DefaultRegion.h_end),
           << 100, 150, 200 >>, << 0, 0, 0 >>)

\* Frames of one channel and of four.
ChannelFrames ==
  {UniformFrame(2, 2, 1, << 100 >>),
   UniformFrame(2, 2, 4, << 100, 150, 200, 255 >>)}

\* Channel values n / 2 from 0 to MaxVal.
Halves == {Rat(n, 2) : n \in 0 .. 2 * MaxVal}

\* One call with whole channel values well apart, under the default pwm_max.
SpreadCall ==
  [fn |-> "scale_to_pwm", rgb |-> << RInt(10), RInt(20), RInt(30) >>,
   pwm_max |-> DefaultConfig.pwm_max]

\* Balance factors k > 0 that the constructor accepts, one for all channels.
UniformFactors == {Rat(1, 2), Rat(9, 10), One}

Calls ==
  [fn : {"average_of_region"},
   image : SizedFrames \cup {PatchFrame} \cup ChannelFrames, region : Regions]
    \cup
  [fn : {"scale_to_pwm"}, rgb : Halves \X Halves \X Halves,
   pwm_max : -1 .. MaxPwm]
    \cup
  {SpreadCall}
    \cup
  [fn : {"balance_and_scale"}, rgb : Halves \X Halves \X Halves,
   k : UniformFactors, pwm_max : 1 .. MaxPwm]

PureInit ==
  /\ ThreadInit({DefaultConfig})
  /\ call \in Calls
  /\ result = NoResult

ApplyAverageOfRegion ==
  /\ call.fn = "average_of_region"
  /\ result.status = "none"
  /\ result' = average_of_region(call.image, call.region)
  /\ UNCHANGED << threadVars, call >>

ApplyScaleToPwm ==
  /\ call.fn = "scale_to_pwm"
  /\ result.status = "none"
  /\ result' = [status |-> "ok", value |-> scale_to_pwm(call.rgb, call.pwm_max)]
  /\ UNCHANGED << threadVars, call >>

\* Lines 37-38 of average_and_scale: color_balance, then scale_to_pwm, of a
\* CameraProcessor whose three balances are k.
ApplyBalanceAndScale ==
  /\ call.fn = "balance_and_scale"
  /\ result.status = "none"
  /\ result' =
       [status |-> "ok",
        value |-> scale_to_pwm(
                    color_balance(call.rgb, << call.k, call.k, call.k >>),
                    call.pwm_max)]
  /\ UNCHANGED << threadVars, call >>

PureNext == ApplyAverageOfRegion \/ ApplyScaleToPwm \/ ApplyBalanceAndScale

PureSpec == PureInit /\ [][PureNext]_vars

\* ------------------------------------------------------------------ claims
\* The thread is inside fade with a fully loaded target.
Fading == ledPc = "fade" /\ Len(args) = 3

\* C1: the triple passed to fade in one call is a triple that one sampling
\* iteration stored whole (or the initial value), never a mix of two publishes.
C1_FadeTargetPublishedWhole == Fading => args \in published

C3_ReleasedExactlyOnce ==
  /\ released <= 1
  /\ (exit_event /\ mainPc = "exited" /\ ~CamInLoop /\ ~LedInLoop)
       => released = 1

\* C4: the actuation loop never issues a fade after the actuator was released.
C4_NoFadeAfterRelease ==
  [][(ledPc = "load_b" /\ ledPc' = "fade") => released = 0]_vars

\* C5: once the shutdown event is set, both loops eventually leave their loop.
C5_ShutdownTerminates == exit_event ~> (~CamInLoop /\ ~LedInLoop)

C5_Witness == exit_event /\ camPc = "done" /\ ledPc = "done"

\* C6: when a capture fails, the next step of the sampling loop leaves the
\* shared colour as it was and the loop alive.
C6_CaptureFailureNotFatal ==
  [][(camPc = "process" /\ image.none)
       => (CamInLoop' /\ << r, g, b >>' = << r, g, b >>)]_vars

OutOfUnit(x) == RLt(x, Zero) \/ RLt(One, x)

\* C7: with a balance factor outside [0, 1] the constructor fails: no worker
\* is ever started, nothing is published and nothing is sent to the actuator.
C7_InvalidBalanceNeverStarts ==
  (\E i \in 1 .. 3 : OutOfUnit(cfg.bal[i]))
    => /\ mainPc \in {"construct", "failed"}
       /\ camPc = "idle" /\ ledPc = "idle"
       /\ published = {InitialColor}
       /\ << r, g, b >> = InitialColor
       /\ args = << >> /\ ~scaled

C7_Witness == (\E i \in 1 .. 3 : OutOfUnit(cfg.bal[i])) /\ mainPc = "failed"

\* C8: with pwm_max <= 0 the workers never start and scale_to_pwm never runs.
C8_NonPositivePwmMaxRejected ==
  cfg.pwm_max <= 0 => (camPc = "idle" /\ ledPc = "idle" /\ ~scaled)

ScaleCallDone == call.fn = "scale_to_pwm" /\ result.status = "ok"

\* C9: for a non-negative triple and pwm_max > 0, every channel of the result
\* of scale_to_pwm is in [0, pwm_max], the largest is pwm_max exactly, and
\* channel_i * M = widened_i * pwm_max, widened_i = x_i - min + 1, M the
\* largest widened_i.
C9_ScaleBrightestIsPwmMax ==
  (ScaleCallDone /\ call.pwm_max > 0)
    => LET x == call.rgb
           lo == CHOOSE m \in {x[1], x[2], x[3]} :
                   \A i \in 1 .. 3 : RLe(m, x[i])
           w == [i \in 1 .. 3 |-> RAdd(RSub(x[i], lo), One)]
           M == CHOOSE m \in {w[1], w[2], w[3]} :
                  \A i \in 1 .. 3 : RLe(w[i], m)
           p == RInt(call.pwm_max)
       IN  /\ \A i \in 1 .. 3 :
                /\ RLe(Zero, result.value[i]) /\ RLe(result.value[i], p)
                /\ RMul(result.value[i], M) = RMul(w[i], p)
           /\ \E i \in 1 .. 3 : result.value[i] = p

C9_Witness ==
  /\ ScaleCallDone /\ call.pwm_max = MaxPwm
  /\ call.rgb = << Rat(1, 2), Rat(2, 1), Rat(3, 2) >>
  /\ result.value[2] = RInt(MaxPwm)
  /\ result.value[1] # RInt(MaxPwm)

\* C10: with a valid region and a 3-channel frame, every pixel index used by
\* average_of_region is inside the frame and inside the computed sub-rectangle
\* [v*v_start, v*v_end) x [h*h_start, h*h_end), its bounds taken as the slice
\* takes them.
C10_ReadsInsideRegion ==
  (/\ call.fn = "average_of_region" /\ result.status # "none"
   /\ RegionAsserts(call.region) /\ call.image.c = 3)
    => \A idx \in result.reads :
         /\ InFrame(call.image, idx)
         /\ SliceBound(call.image.v, call.region.v_start) <= idx[1]
         /\ idx[1] < SliceBound(call.image.v, call.region.v_end)
         /\ SliceBound(call.image.h, call.region.h_start) <= idx[2]
         /\ idx[2] < SliceBound(call.image.h, call.region.h_end)

AverageCallDone == call.fn = "average_of_region" /\ result.status # "none"

\* C11: for a 3-channel B,G,R frame whose pixels inside the sampled region all
\* have one colour <<b, g, r>>, average_of_region returns exactly <<r, g, b>>.
C11_UniformRegionAverage ==
  (AverageCallDone /\ RegionAsserts(call.region) /\ call.image.c = 3)
    => \A bgr \in {call.image.pix[p] :
                     p \in RegionPixels(call.image, call.region)} :
         (\A p \in RegionPixels(call.image, call.region) :
            call.image.pix[p] = bgr)
           => /\ result.status = "ok"
              /\ result.value = << bgr[3], bgr[2], bgr[1] >>

\* A region the claim calls invalid.
InvalidRegion(reg) ==
  \/ ~RLt(reg.v_start, reg.v_end)
  \/ ~RLt(reg.h_start, reg.h_end)
  \/ \E f \in {reg.v_start, reg.v_end, reg.h_start, reg.h_end} : OutOfUnit(f)

\* C12: average_of_region called with an invalid region, or with a frame that
\* has not exactly 3 channels, fails on an assertion before it reads any pixel
\* and returns no triple.
C12_InvalidCallRejected ==
  (AverageCallDone /\ (InvalidRegion(call.region) \/ call.image.c # 3))
    => (result.status = "AssertionError" /\ result.reads = {})

C12_Witness ==
  /\ AverageCallDone
  /\ RLt(call.region.h_end, call.region.h_start)
  /\ ~InvalidRegion([call.region EXCEPT !.h_start = call.region.h_end,
                                        !.h_end = call.region.h_start])
  /\ call.image.c = 3 /\ call.image.v = MaxDim
  /\ result.status = "AssertionError"

\* C13: in test mode (a command line the constructors accept) no worker loop
\* is ever started and the shared colour is never published; the run, once it
\* has stopped, has captured a frame, run the actuator self-test once and
\* released the actuator exactly once, after the self-test.
C13_TestModeSelfTestThenRelease ==
  (cfg.test /\ ConstructorAsserts(cfg) /\ cfg.pwm_max > 0)
    => /\ camPc = "idle" /\ ledPc = "idle"
       /\ published = {InitialColor} /\ pubCount = 0
       /\ << r, g, b >> = InitialColor
       /\ tested <= 1 /\ released <= tested
       /\ mainPc \in {"failed", "test_done"} => (tested = 1 /\ released = 1)

\* 100 * x rounded to the nearest integer (x >= 0): x to two decimal places.
Round2(x) == (200 * x[1] + x[2]) \div (2 * x[2])

SpreadCallDone == call = SpreadCall /\ result.status = "ok"

\* C14 as stated: scale_to_pwm of the sample (10, 20, 30) with pwm_max = 100 is
\* (35.48, 70.97, 100.00) to two decimal places.
C14_SpreadSampleAsStated ==
  SpreadCallDone
    => [i \in 1 .. 3 |-> Round2(result.value[i])] = << 3548, 7097, 10000 >>

\* C14 as amended: scale_to_pwm of the sample (10, 20, 30) with pwm_max = 100
\* is (4.76, 52.38, 100.00) to two decimal places: (1, 11, 21) * 100 / 21.
C14_SpreadSampleWidened ==
  SpreadCallDone
    => [i \in 1 .. 3 |-> Round2(result.value[i])] = << 476, 5238, 10000 >>

C14_Witness == SpreadCallDone /\ result.value[3] = RInt(SpreadCall.pwm_max)

BalanceCallDone == call.fn = "balance_and_scale" /\ result.status = "ok"

C16_ShutdownCheckedFirst ==
  [][(exit_event /\ camPc = "capture")
       => camPc' \in {"capture", "release", "done"}]_vars

\* C17: the shutdown event starts unset, and once set it stays set in every
\* later state, whatever the workers, main and further interrupts do.
C17_ShutdownMonotonic == ~exit_event /\ [][exit_event => exit_event']_vars

C17_Witness == exit_event /\ mainPc = "exited" /\ CamInLoop /\ ledPc = "fade"

\* C18: after construction only the sampling loop's three stores change the
\* shared r, g, b; every step of the actuation loop, of the interrupt handler
\* and of main's keep-alive loop leaves them unchanged.
C18_OnlySamplingWritesColor ==
  [][/\ (<< r, g, b >>' # << r, g, b >>)
          => /\ camPc \in {"store_r", "store_g", "store_b"}
             /\ camPc' # camPc
             /\ ledPc' = ledPc /\ mainPc' = mainPc /\ exit_event' = exit_event
     /\ (ledPc' # ledPc \/ mainPc' # mainPc \/ exit_event' # exit_event)
          => << r, g, b >>' = << r, g, b >>]_vars

C18_Witness ==
  /\ ledPc = "check" /\ mainPc = "exited" /\ exit_event
  /\ pubCount >= 1 /\ << r, g, b >> \notin published

\* C19: the actuation loop never waits on the sampling loop: while it has not
\* left its loop its next step is enabled, and a fade whose three arguments
\* were loaded with no store since (each channel still as the last completed
\* publish wrote it) is toward the shared colour, the last published triple.
C19_FadeNeverWaits ==
  /\ LedInLoop => ENABLED Led
  /\ (/\ Fading /\ pubCount < MaxPub
      /\ argVer = ver /\ ver = << pubCount, pubCount, pubCount >>)
       => (args = << r, g, b >> /\ args \in published)

C19_Witness ==
  /\ Fading /\ camPc = "crashed" /\ pubCount = 1
  /\ argVer = << 1, 1, 1 >> /\ args = << r, g, b >>
  /\ args # InitialColor

\* A command line with pwm_max > 0 and every balance factor in [0, 1].
ValidOptions ==
  cfg.pwm_max > 0 /\ \A i \in 1 .. 3 : ~OutOfUnit(cfg.bal[i])

InPwmRange(x) == RLe(Zero, x) /\ RLe(x, RInt(cfg.pwm_max))

====
